---------------------------- MODULE Spec2Model ----------------------------
(***************************************************************************)
(* A model of the kline snapshot scripts: src/snapshot.py (envelope        *)
(* normalisation, row parsing, endpoint fallback, snapshot assembly) and   *)
(* src/generate_snapshot.py (Markdown rendering in a fixed pair order).    *)
(*                                                                         *)
(* Numbers.  TLC integers are 32 bits wide and the timestamp threshold of  *)
(* the source, 10_000_000_000, is not.  Every integer of the model that    *)
(* stands for a timestamp counts units of 10^7: 1700000000 (seconds)       *)
(* reads 170, 1700000000000 (milliseconds) reads 170000 and the threshold  *)
(* reads 1000.  Comparison with the threshold and multiplication by 1000   *)
(* are exact on such multiples.  A Python float is a whole part n and a    *)
(* fractional part fr (tenths, of the same sign as n), or nan, or inf.     *)
(***************************************************************************)
EXTENDS Integers, Sequences, FiniteSets, TLC

VARIABLES
    row,        \* the raw row handed to parse_kline_row
    parsed,     \* its outcome: pending, a tuple, or a raised exception
    obj,        \* the decoded JSON value handed to normalize_klines
    normalized, \* its outcome: pending, the returned value, or a raised exception
    pc,             \* where build_snapshot stands
    symIdx,         \* the position in SYMBOLS of the asset being built
    epIdx,          \* the position in KLINE_ENDPOINTS of the endpoint to try next
    raw,            \* the last response of http_get for this asset
    contacted,      \* the responses of the endpoints contacted for this asset, in order
    last_err,       \* fetch_klines_for_symbol: last_err
    klines,         \* build_asset_block: klines, as fetch_klines_for_symbol returned them
    used_url,       \* build_asset_block: used_url (an endpoint position)
    snapshot_pairs, \* build_snapshot: snapshot_pairs, items in insertion order
    used_sources,   \* build_snapshot: used_sources
    snapshot,       \* what main wrote: data/summary.json and the rows of SNAPSHOT.md
    error,          \* the exception that reached main, if any
    series,     \* generate_snapshot: the candle series per pair that a run is given
    run,        \* generate_snapshot: the run under way (1, 2), 3 after both
    pairs,      \* generate_snapshot: d["pairs"] of each run, items in insertion order
    mds,        \* generate_snapshot: the table build_md made in each finished run
    posRow,     \* a candle as a positional row
    namedRow,   \* the same candle as a named row
    posOut,     \* parse_kline_row(posRow), or pending
    namedOut,   \* parse_kline_row(namedRow), or pending
    fk_pc,        \* fetch_klines: in its loop, returned, or raised
    attempt,      \* fetch_klines: attempt
    backoff,      \* fetch_klines: backoff, as <<numerator, denominator>>
    fk_outcomes,  \* fetch_klines: the outcomes of the requests issued so far
    fk_result,    \* fetch_klines: what it returned or raised
    get_pc,       \* _get: in its loop, returned, or raised
    get_tries,    \* _get: turns of the loop begun
    last_exc,     \* _get: last_exc
    get_outcomes, \* _get: the outcomes of the requests issued so far
    get_result,   \* _get: what it returned or raised
    indicators,   \* the classifier's inputs: close, ema20, ema50, ema200, rsi14
    bias          \* the BiasResult with its score, or pending

rowVars  == <<row, parsed>>
normVars == <<obj, normalized>>
snapVars == <<pc, symIdx, epIdx, raw, contacted, last_err, klines, used_url,
              snapshot_pairs, used_sources, snapshot, error>>
mdVars   == <<series, run, pairs, mds>>
eqVars   == <<posRow, namedRow, posOut, namedOut>>
biasVars == <<indicators, bias>>
retryVars == <<fk_pc, attempt, backoff, fk_outcomes, fk_result,
               get_pc, get_tries, last_exc, get_outcomes, get_result>>
vars == <<rowVars, normVars, snapVars, mdVars, eqVars, retryVars, biasVars>>

-----------------------------------------------------------------------------
(* Python values that a decoded JSON row can carry in a field.              *)

V(k, cls, n, fr) == [k |-> k, cls |-> cls, n |-> n, fr |-> fr]

VNone         == V("none", "none", 0, 0)
VInt(n)       == V("int", "fin", n, 0)
VBool(b)      == V("bool", "fin", b, 0)
VFloat(n, fr) == V("float", "fin", n, fr)
VNan          == V("float", "nan", 0, 0)
VInf          == V("float", "inf", 0, 0)
\* a string: the text of a number, "nan", "inf", "" or anything else
VStr(n, fr)   == V("str", "fin", n, fr)
VStrNan       == V("str", "nan", 0, 0)
VStrInf       == V("str", "inf", 0, 0)
VStrEmpty     == V("str", "empty", 0, 0)
VStrBad       == V("str", "bad", 0, 0)
\* a nested, non-empty list or object
VObj          == V("obj", "obj", 0, 0)

\* Python truthiness, as the `or` chain of the volume lookup sees it
Truthy(x) ==
    CASE x.k = "none"  -> FALSE
      [] x.k = "int"   -> x.n # 0
      [] x.k = "bool"  -> x.n # 0
      [] x.k = "float" -> ~(x.cls = "fin" /\ x.n = 0 /\ x.fr = 0)
      [] x.k = "str"   -> x.cls # "empty"
      [] OTHER         -> TRUE

\* outcomes of a conversion: a value, or the exception it raised
Ret(v)     == [ok |-> TRUE, v |-> v, exc |-> ""]
Raise(exc) == [ok |-> FALSE, v |-> VNone, exc |-> exc]

\* float(str(x)) for a value that is neither None nor a number
FloatOfText(x) ==
    CASE x.k = "str" /\ x.cls = "fin" -> Ret(VFloat(x.n, x.fr))
      [] x.k = "str" /\ x.cls = "nan" -> Ret(VNan)
      [] x.k = "str" /\ x.cls = "inf" -> Ret(VInf)
      [] OTHER                        -> Raise("ValueError")

to_f(x) ==
    IF x.k = "none" THEN Ret(VFloat(0, 0))
    ELSE IF x.k \in {"int", "bool"} THEN Ret(VFloat(x.n, 0))
    ELSE IF x.k = "float" THEN Ret(x)
    ELSE FloatOfText(x)

\* int(f) of a float: truncation toward zero; nan and inf raise
IntOfFloat(f) ==
    CASE f.cls = "fin" -> Ret(VInt(f.n))
      [] f.cls = "nan" -> Raise("ValueError")
      [] OTHER         -> Raise("OverflowError")

to_i(x) ==
    IF x.k = "none" THEN Ret(VInt(0))
    ELSE IF x.k \in {"int", "bool"} THEN Ret(VInt(x.n))
    ELSE IF x.k = "float" THEN IntOfFloat(x)
    ELSE LET f == FloatOfText(x)
         IN  IF f.ok THEN IntOfFloat(f.v) ELSE f

-----------------------------------------------------------------------------
(* Rows.  A row is a dict (its items in insertion order, as <<key, value>>  *)
(* pairs with pairwise different keys), a list, or any other value.         *)

DictRow(items) == [k |-> "dict", e |-> items]
ListRow(elems) == [k |-> "list", e |-> elems]
OtherRow       == [k |-> "other", e |-> <<>>]

\* str(k).lower() on the keys the model uses
Lower(key) ==
    CASE key \in {"T", "t"}                  -> "t"
      [] key \in {"Time", "TIME", "time"}    -> "time"
      [] key \in {"TS", "ts"}                -> "ts"
      [] key \in {"Timestamp", "timestamp"}  -> "timestamp"
      [] key \in {"Open", "OPEN", "open"}    -> "open"
      [] key \in {"O", "o"}                  -> "o"
      [] key \in {"High", "HIGH", "high"}    -> "high"
      [] key \in {"H", "h"}                  -> "h"
      [] key \in {"Low", "LOW", "low"}       -> "low"
      [] key \in {"L", "l"}                  -> "l"
      [] key \in {"Close", "CLOSE", "close"} -> "close"
      [] key \in {"C", "c"}                  -> "c"
      [] key \in {"Volume", "VOLUME", "volume"} -> "volume"
      [] key \in {"V", "v"}                  -> "v"
      [] key \in {"Vol", "vol"}              -> "vol"
      [] key \in {"Amount", "amount"}        -> "amount"
      [] key \in {"Turnover", "turnover"}    -> "turnover"
      [] key \in {"turnover24h"}             -> "turnover24h"
      [] OTHER                               -> key

\* lower = {str(k).lower(): v for k, v in row.items()}: a later item replaces
\* an earlier one whose key lowers to the same text
LowerHas(items, key) == \E i \in 1..Len(items) : Lower(items[i][1]) = key

LowerGet(items, key, default) ==
    IF LowerHas(items, key)
    THEN LET last == CHOOSE i \in 1..Len(items) :
                        /\ Lower(items[i][1]) = key
                        /\ \A j \in 1..Len(items) : Lower(items[j][1]) = key => j <= i
         IN  items[last][2]
    ELSE default

\* the literal 10_000_000_000 of the source, in units of 10^7
TS_THRESHOLD == 1000

\* if ts < 10_000_000_000: ts *= 1000
ScaleTs(ts) == IF ts < TS_THRESHOLD THEN ts * 1000 ELSE ts

\* ts = to_i(x), scaled by the threshold rule
TsOf(x) ==
    LET r == to_i(x)
    IN  IF r.ok THEN Ret(VInt(ScaleTs(r.v.n))) ELSE r

Pending      == [st |-> "pending", t |-> <<>>, exc |-> ""]
Tuple(t)     == [st |-> "ok", t |-> t, exc |-> ""]
RowError(e)  == [st |-> "raise", t |-> <<>>, exc |-> e]

\* the tuple (ts, to_f(o), ..., to_f(v)), its conversions evaluated left to
\* right: the first one that raises decides the exception
Assemble(ti, fs) ==
    IF ~ti.ok THEN RowError(ti.exc)
    ELSE IF \E i \in 1..Len(fs) : ~fs[i].ok
    THEN LET first == CHOOSE i \in 1..Len(fs) :
                         ~fs[i].ok /\ \A j \in 1..(i - 1) : fs[j].ok
         IN  RowError(fs[first].exc)
    ELSE Tuple(<<ti.v.n>> \o [i \in 1..Len(fs) |-> fs[i].v])

\* volume: the first truthy one of volume, v, amount, turnover, turnover24h, else 0
VolumeOf(items) ==
    LET g(key) == LowerGet(items, key, VNone)
    IN  IF Truthy(g("volume")) THEN g("volume")
        ELSE IF Truthy(g("v")) THEN g("v")
        ELSE IF Truthy(g("amount")) THEN g("amount")
        ELSE IF Truthy(g("turnover")) THEN g("turnover")
        ELSE IF Truthy(g("turnover24h")) THEN g("turnover24h")
        ELSE VInt(0)

ParseDict(items) ==
    LET g(key, default) == LowerGet(items, key, default)
        ts == g("time", g("t", g("ts", g("timestamp", VNone))))
        o  == g("open", g("o", VNone))
        h  == g("high", g("h", VNone))
        l  == g("low", g("l", VNone))
        c  == g("close", g("c", VNone))
    IN  Assemble(TsOf(ts), <<to_f(o), to_f(h), to_f(l), to_f(c), to_f(VolumeOf(items))>>)

\* the least number of elements a positional row must have
MIN_LIST_LEN == 6

\* the positional branch without its copy of the threshold rule
ParseListUnscaled(elems) ==
    IF Len(elems) < MIN_LIST_LEN THEN RowError("ValueError")
    ELSE Assemble(to_i(elems[1]),
                  <<to_f(elems[2]), to_f(elems[3]), to_f(elems[4]),
                    to_f(elems[5]), to_f(elems[6])>>)

ParseList(elems) ==
    IF Len(elems) < MIN_LIST_LEN THEN RowError("ValueError")
    ELSE Assemble(TsOf(elems[1]),
                  <<to_f(elems[2]), to_f(elems[3]), to_f(elems[4]),
                    to_f(elems[5]), to_f(elems[6])>>)

parse_kline_row(r) ==
    IF r.k = "dict" THEN ParseDict(r.e)
    ELSE IF r.k = "list" THEN ParseList(r.e)
    ELSE RowError("ValueError")

-----------------------------------------------------------------------------
(* The rows the row parser is run on: one timestamp item, the four price    *)
(* fields of which one is varied (key, value, or left out), and the         *)
(* volume-like items; positional rows of every length up to MaxRowLen.      *)

MaxRowLen == 7

TsKeys == {"time", "t", "ts", "timestamp", "T"}

TsVals ==
    { VNone, VInt(0), VInt(170), VInt(999), VInt(1000), VInt(170000),
      VFloat(170, 5), VStr(170, 0), VStr(1000, 5), VStrBad, VNan, VBool(1) }

PriceVals ==
    { VInt(105), VFloat(105, 5), VStr(105, 5), VNone, VStrBad, VStrNan, VObj }

VolVals == { VInt(0), VInt(7), VStr(0, 0), VNone, VFloat(0, 0) }

\* the names of the price fields, long and short, and a good value of each
PriceLong  == <<"open", "high", "low", "close">>
PriceShort == <<"o", "h", "l", "c">>
PriceUpper == <<"OPEN", "High", "LOW", "Close">>
PriceGood  == <<VFloat(101, 0), VFloat(110, 0), VFloat(99, 0), VFloat(105, 0)>>

TsParts ==
    {<<>>}
    \cup { << <<key, v>> >> : key \in TsKeys, v \in TsVals }
    \cup { << <<"time", VNone>>, <<"t", VInt(170)>> >>,
           << <<"T", VInt(170)>>, <<"t", VInt(170000)>> >> }

\* the four price items, field p carrying item it (<<>>: field p left out)
PriceItems(p, it) ==
    LET one(i) == IF i = p THEN it ELSE << <<PriceLong[i], PriceGood[i]>> >>
    IN  one(1) \o one(2) \o one(3) \o one(4)

PriceParts ==
    { PriceItems(p, <<>>) : p \in 1..4 }
    \cup UNION { { PriceItems(p, << <<key, v>> >>) :
                      key \in {PriceLong[p], PriceShort[p], PriceUpper[p]},
                      v \in PriceVals } : p \in 1..4 }

VolParts ==
    {<<>>}
    \cup { << <<key, v>> >> : key \in {"volume", "v", "Vol"}, v \in VolVals }
    \cup { << <<"volume", VInt(0)>>, <<"amount", VInt(7)>> >>,
           << <<"Volume", VInt(7)>>, <<"turnover", VInt(9)>> >>,
           << <<"amount", VInt(7)>> >>,
           << <<"v", VStrEmpty>>, <<"turnover24h", VInt(9)>> >> }

DictRows == { DictRow(tp \o pp \o vp) : tp \in TsParts, pp \in PriceParts, vp \in VolParts }

ListElem(i, tsv, p, pv, vv) ==
    IF i = 1 THEN tsv
    ELSE IF i \in 2..5 THEN (IF i - 1 = p THEN pv ELSE PriceGood[i - 1])
    ELSE IF i = 6 THEN vv
    ELSE VInt(12)

ListRows ==
    { ListRow([i \in 1..n |-> ListElem(i, tsv, p, pv, vv)]) :
        n \in 0..MaxRowLen, tsv \in TsVals, p \in 1..4, pv \in PriceVals, vv \in VolVals }

RawRows == DictRows \cup ListRows \cup {OtherRow}

RowInit ==
    /\ row \in RawRows
    /\ parsed = Pending

\* the row parser at rest, while another part of the program is looked at
RowIdle ==
    /\ row = OtherRow
    /\ parsed = Pending

\* parse_kline_row(row) is called once on the row in hand
ParseRow ==
    /\ parsed.st = "pending"
    /\ parsed' = parse_kline_row(row)
    /\ UNCHANGED row

-----------------------------------------------------------------------------
(* Properties of the row parser, under SpecRow.                             *)

TsNames == {"time", "t", "ts", "timestamp"}
VolumeNames == {"volume", "v", "vol", "amount", "turnover", "turnover24h"}

\* the values a row offers for a field: under any of its names (dict), or at
\* its position when the row is long enough (list)
FieldValues(r, names, pos) ==
    IF r.k = "dict"
    THEN { r.e[i][2] : i \in { j \in 1..Len(r.e) : Lower(r.e[j][1]) \in names } }
    ELSE IF r.k = "list" /\ Len(r.e) >= pos THEN { r.e[pos] }
    ELSE {}

PriceNames(i) == {PriceLong[i], PriceShort[i]}

\* a number or the text of one, finite
FiniteNumber(x) == x.k \in {"int", "bool", "float", "str"} /\ x.cls = "fin"

\* C1: an accepted row of either shape carries the coerced input timestamp
\* times 1000 when that is below the threshold, and unchanged otherwise.
\* (A dict row without any timestamp key offers None, which coerces to 0.)
C1_TimestampRule ==
    parsed.st = "ok" =>
        LET offered == FieldValues(row, TsNames, 1)
            cands   == IF offered = {} THEN {VNone} ELSE offered
        IN  \E x \in cands :
              /\ to_i(x).ok
              /\ LET cv == to_i(x).v.n
                 IN  parsed.t[1] = IF cv < TS_THRESHOLD THEN cv * 1000 ELSE cv

\* a positional row in seconds comes out in milliseconds
C1_Witness ==
    /\ parsed.st = "ok"
    /\ row.k = "list"
    /\ row.e[1] = VInt(170)
    /\ parsed.t[1] = 170000

\* C5 (as claimed): a row is accepted only if each of timestamp, open, high,
\* low and close is present and coercible to a finite number.
C5_RequiredFieldsOrFail ==
    parsed.st = "ok" =>
        /\ \E x \in FieldValues(row, TsNames, 1) : FiniteNumber(x)
        /\ \A i \in 1..4 :
              \E x \in FieldValues(row, PriceNames(i), i + 1) : FiniteNumber(x)

\* every required field is there, once, and is a finite number
RequiredFieldsGood(r) ==
    /\ \E x \in FieldValues(r, TsNames, 1) : TRUE
    /\ \A x \in FieldValues(r, TsNames, 1) : FiniteNumber(x)
    /\ \A i \in 1..4 :
          /\ \E x \in FieldValues(r, PriceNames(i), i + 1) : TRUE
          /\ \A x \in FieldValues(r, PriceNames(i), i + 1) : FiniteNumber(x)

\* C6 (as claimed): a row whose required fields are good and that merely has
\* no volume (five positional elements, or no volume-like key) is accepted
\* with volume 0.
C6_MissingVolumeAccepted ==
    ( /\ parsed.st # "pending"
      /\ RequiredFieldsGood(row)
      /\ \/ row.k = "list" /\ Len(row.e) = 5
         \/ row.k = "dict" /\ FieldValues(row, VolumeNames, 6) = {} )
    => ( parsed.st = "ok" /\ parsed.t[6] = VFloat(0, 0) )

-----------------------------------------------------------------------------
(* normalize_klines.  A decoded JSON value is a dict (items in insertion    *)
(* order), a list, or a scalar ("str", "int", "none", "bool").              *)

JList(elems) == [k |-> "list", e |-> elems]
JDict(items) == [k |-> "dict", e |-> items]
JScalar(k)   == [k |-> k, e |-> <<>>]

\* key in obj, and obj[key], for a dict given by its items
Has(items, key) == \E i \in 1..Len(items) : items[i][1] = key
Get(items, key) == items[CHOOSE i \in 1..Len(items) : items[i][1] = key][2]

NormPending    == [st |-> "pending", val |-> JScalar("none"), exc |-> ""]
NormReturn(v)  == [st |-> "ok", val |-> v, exc |-> ""]
NormRaise      == [st |-> "raise", val |-> JScalar("none"), exc |-> "ValueError"]

\* the final test and return: if not isinstance(rows, list): raise
ReturnIfList(rows) == IF rows.k = "list" THEN NormReturn(rows) ELSE NormRaise

\* the envelope branch without the wrapping of a single dict
WrapSingleOmitted(rows) == rows

\* if isinstance(rows, dict): rows = [rows]
WrapSingle(rows) == IF rows.k = "dict" THEN JList(<<rows>>) ELSE rows

\* the value under "data", before wrapping; rows of the dict branch
EnvelopeRows(items) ==
    IF Has(items, "data") THEN NormReturn(Get(items, "data"))
    ELSE IF Has(items, "success") /\ Has(items, "code") THEN NormReturn(JList(<<>>))
    ELSE NormRaise

normalize_klines(o) ==
    IF o.k = "dict"
    THEN LET r == EnvelopeRows(o.e)
         IN  IF r.st = "ok" THEN ReturnIfList(WrapSingle(r.val)) ELSE r
    ELSE IF o.k = "list" THEN ReturnIfList(o)
    ELSE NormRaise

\* sample rows: positional and named, the named one usable as a single
\* candle under "data"
RowA == ListRow(<<VInt(170000), VStr(101, 0), VStr(110, 0), VStr(99, 0), VStr(105, 0), VInt(7)>>)
RowB == DictRow(<< <<"time", VInt(170)>>, <<"open", VFloat(101, 0)>>, <<"high", VFloat(110, 0)>>,
                   <<"low", VFloat(99, 0)>>, <<"close", VFloat(105, 5)>>, <<"vol", VInt(3)>> >>)

DataVals ==
    { JList(<<>>), JList(<<RowA>>), JList(<<RowA, RowB>>), JList(<<RowB>>),
      RowB, JDict(<<>>), JScalar("str"), JScalar("none"), JScalar("int") }

\* an optional item
Opt(key, vals) == {<<>>} \cup { << <<key, v>> >> : v \in vals }

Envelopes ==
    { JDict(a \o b \o c \o d) :
        a \in Opt("success", {JScalar("bool")}),
        b \in Opt("code", {JScalar("int")}),
        c \in Opt("data", DataVals),
        d \in Opt("msg", {JScalar("str")}) }

Payloads ==
    Envelopes
    \cup { JList(<<>>), JList(<<RowA>>), JList(<<RowB, RowA>>),
           JScalar("str"), JScalar("none"), JScalar("int") }

NormInit ==
    /\ obj \in Payloads
    /\ normalized = NormPending

NormIdle ==
    /\ obj = JScalar("none")
    /\ normalized = NormPending

\* normalize_klines(obj) is called once on the value in hand
Normalize ==
    /\ normalized.st = "pending"
    /\ normalized' = normalize_klines(obj)
    /\ UNCHANGED obj

-----------------------------------------------------------------------------
(* build_snapshot, build_asset_block and fetch_klines_for_symbol.           *)

\* SYMBOLS.items(), in the order the dict literal gives: <<human, mexc>>
SYMBOLS == << <<"BTCUSDT", "BTC_USDT">>, <<"ETHUSDT", "ETH_USDT">>, <<"SOLUSDT", "SOL_USDT">> >>

\* the two URL templates, in list order
KLINE_ENDPOINTS == <<"query", "path">>

KLINES_LIMIT == 60

\* the most rows a response of the model carries
MaxRows == 2

\* rows of a response: two candles of one timestamp (2000, already in
\* milliseconds) with different closes, an earlier candle given in seconds
\* (1, read as 1000), and a positional row that is too short
RowT2  == ListRow(<<VInt(2000), VInt(100), VInt(110), VInt(90), VInt(105), VInt(7)>>)
RowT2b == ListRow(<<VInt(2000), VInt(100), VInt(110), VInt(90), VInt(106), VInt(8)>>)
RowT1  == ListRow(<<VInt(1), VInt(100), VInt(110), VInt(90), VInt(104), VInt(6)>>)
RowBad == ListRow(<<VInt(2000), VInt(100), VInt(110)>>)

RowPool == {RowT2, RowT2b, RowT1, RowBad}

\* row lists of up to MaxRows rows, no row of the pool twice
RowLists ==
    UNION { { rs \in [1..n -> RowPool] : \A i, j \in 1..n : rs[i] = rs[j] => i = j } :
              n \in 0..MaxRows }

\* what http_get does: it raises (transport error, non-JSON body) or returns
\* the decoded body
HttpRaise    == [kind |-> "raise", val |-> JScalar("none")]
HttpJson(v)  == [kind |-> "json", val |-> v]
NoResponse   == [kind |-> "none", val |-> JScalar("none")]

Responses ==
    {HttpRaise}
    \cup { HttpJson(JList(rs)) : rs \in RowLists }
    \cup { HttpJson(JDict(<< <<"success", JScalar("bool")>>, <<"code", JScalar("int")>>,
                            <<"data", JList(rs)>> >>)) : rs \in { r \in RowLists : Len(r) <= 1 } }
    \cup { HttpJson(JDict(<< <<"msg", JScalar("str")>> >>)) }

\* the rows left in the order of the response
Unsorted(s) == s

\* parsed.sort(key=lambda x: x[0]): a stable sort, by insertion
InsertByTs(sorted, x) ==
    LET n == Cardinality({ i \in 1..Len(sorted) : sorted[i][1] <= x[1] })
    IN  SubSeq(sorted, 1, n) \o <<x>> \o SubSeq(sorted, n + 1, Len(sorted))

RECURSIVE SortByTs(_)
SortByTs(s) ==
    IF s = <<>> THEN <<>>
    ELSE InsertByTs(SortByTs(SubSeq(s, 1, Len(s) - 1)), s[Len(s)])

\* the body of the try block for one endpoint: http_get, normalize_klines,
\* parse_kline_row on every row, sort; any exception fails the endpoint
EndpointOk(ks)   == [ok |-> TRUE, klines |-> ks, exc |-> ""]
EndpointFail(e)  == [ok |-> FALSE, klines |-> <<>>, exc |-> e]

TryBody(resp) ==
    IF resp.kind # "json" THEN EndpointFail("http")
    ELSE LET n == normalize_klines(resp.val)
         IN  IF n.st # "ok" THEN EndpointFail(n.exc)
             ELSE LET rs == n.val.e
                      ps == [i \in 1..Len(rs) |-> parse_kline_row(rs[i])]
                  IN  IF \E i \in 1..Len(ps) : ps[i].st # "ok"
                      THEN EndpointFail("ValueError")
                      ELSE EndpointOk(SortByTs([i \in 1..Len(ps) |-> ps[i].t]))

NoSnapshot == [written |-> FALSE, pairs |-> <<>>, sources |-> {}, md |-> <<>>]

SnapInit ==
    /\ pc = "fetch"
    /\ symIdx = 1
    /\ epIdx = 1
    /\ raw = NoResponse
    /\ contacted = <<>>
    /\ last_err = <<>>
    /\ klines = <<>>
    /\ used_url = 0
    /\ snapshot_pairs = <<>>
    /\ used_sources = {}
    /\ snapshot = NoSnapshot
    /\ error = ""

SnapIdle ==
    /\ pc = "idle"
    /\ symIdx = 1
    /\ epIdx = 1
    /\ raw = NoResponse
    /\ contacted = <<>>
    /\ last_err = <<>>
    /\ klines = <<>>
    /\ used_url = 0
    /\ snapshot_pairs = <<>>
    /\ used_sources = {}
    /\ snapshot = NoSnapshot
    /\ error = ""

\* fetch_klines_for_symbol: one turn of the loop over KLINE_ENDPOINTS.  After
\* the last endpoint has failed the RuntimeError passes through
\* build_asset_block and build_snapshot to main, which exits with status 1.
TryEndpoint(resp) ==
    /\ pc = "fetch"
    /\ raw' = resp
    /\ contacted' = Append(contacted, resp)
    /\ LET out == TryBody(resp)
       IN  IF out.ok
           THEN /\ klines' = out.klines
                /\ used_url' = epIdx
                /\ pc' = "block"
                /\ UNCHANGED <<epIdx, last_err, error>>
           ELSE /\ last_err' = <<epIdx, out.exc>>
                /\ IF epIdx < Len(KLINE_ENDPOINTS)
                   THEN epIdx' = epIdx + 1 /\ UNCHANGED <<pc, error>>
                   ELSE pc' = "failed" /\ error' = "All MEXC kline endpoints failed"
                                       /\ UNCHANGED epIdx
                /\ UNCHANGED <<klines, used_url>>
    /\ UNCHANGED <<symIdx, snapshot_pairs, used_sources, snapshot>>

\* klines[-n:]
LastN(s, n) == IF Len(s) <= n THEN s ELSE SubSeq(s, Len(s) - n + 1, Len(s))

\* the asset dict of build_asset_block (the percentage changes, which are
\* floating-point quotients of the closes below, are left out)
AssetBlock(symbol_name, ks) ==
    LET lastk == ks[Len(ks)]
    IN  [ pair        |-> symbol_name,
          tf          |-> "1m",
          price       |-> lastk[5],
          prev_close  |-> IF Len(ks) >= 2 THEN ks[Len(ks) - 1][5] ELSE lastk[2],
          candle_time |-> lastk[1],
          volume_last |-> lastk[6],
          klines_1m   |-> LastN(ks, KLINES_LIMIT) ]

\* build_asset_block after fetch_klines_for_symbol has returned, and the
\* rest of the turn of build_snapshot's loop over SYMBOLS
BuildAssetBlock ==
    /\ pc = "block"
    /\ IF klines = <<>>
       THEN /\ pc' = "failed"
            /\ error' = "No klines"
            /\ UNCHANGED <<symIdx, epIdx, raw, contacted, last_err, klines, used_url,
                           snapshot_pairs, used_sources>>
       ELSE /\ snapshot_pairs' =
                  Append(snapshot_pairs, <<SYMBOLS[symIdx][1], AssetBlock(SYMBOLS[symIdx][1], klines)>>)
            /\ used_sources' = used_sources \cup {<<KLINE_ENDPOINTS[used_url], SYMBOLS[symIdx][2]>>}
            /\ IF symIdx < Len(SYMBOLS)
               THEN symIdx' = symIdx + 1 /\ pc' = "fetch"
               ELSE pc' = "finish" /\ UNCHANGED symIdx
            /\ epIdx' = 1
            /\ raw' = NoResponse
            /\ contacted' = <<>>
            /\ last_err' = <<>>
            /\ klines' = <<>>
            /\ used_url' = 0
            /\ UNCHANGED error
    /\ UNCHANGED snapshot

\* pairs[k] of a dict given by its items
PairOf(items, key) == items[CHOOSE i \in 1..Len(items) : items[i][1] = key][2]

\* the table rows of write_snapshot_md, in the order of its literal list
MD_ORDER == <<"BTCUSDT", "ETHUSDT", "SOLUSDT">>

write_snapshot_md(ps) ==
    [ i \in 1..Len(MD_ORDER) |->
        LET a == PairOf(ps, MD_ORDER[i])
        IN  <<MD_ORDER[i], a.tf, a.price, a.candle_time, a.volume_last>> ]

\* the end of build_snapshot, and main writing summary.json and SNAPSHOT.md
FinishSnapshot ==
    /\ pc = "finish"
    /\ snapshot' = [ written |-> TRUE, pairs |-> snapshot_pairs, sources |-> used_sources,
                     md |-> write_snapshot_md(snapshot_pairs) ]
    /\ pc' = "done"
    /\ UNCHANGED <<symIdx, epIdx, raw, contacted, last_err, klines, used_url,
                   snapshot_pairs, used_sources, error>>

-----------------------------------------------------------------------------
(* generate_snapshot.py: build_md over d["pairs"], a dict of dicts          *)
(* {"BTCUSDT": {"1m": [...], "15m": [...]}, ...} whose key order is the     *)
(* order in which the per-pair series were put into it.                     *)

\* order = ["BTCUSDT","ETHUSDT","SOLUSDT"] and the timeframes of the inner loop
order      == <<"BTCUSDT", "ETHUSDT", "SOLUSDT">>
TIMEFRAMES == <<"1m", "15m">>

PairIds == { <<order[i], TIMEFRAMES[j]>> : i \in 1..Len(order), j \in 1..Len(TIMEFRAMES) }

\* one candle of latest.json
Candle(close, time, volume) == [close |-> close, time |-> time, volume |-> volume]

\* a pair's series: left out of the file ("absent"), or a list of candles
Absent      == [given |-> FALSE, arr |-> <<>>]
Given(arr)  == [given |-> TRUE, arr |-> arr]

\* two candles per pair, the closes different from pair to pair
FullSeries ==
    [ p \in PairIds |->
        LET base == IF p[1] = "BTCUSDT" THEN 60000 ELSE IF p[1] = "ETHUSDT" THEN 2500 ELSE 150
            off  == IF p[2] = "1m" THEN 1 ELSE 5
        IN  Given(<<Candle(base, 1, 7), Candle(base + off, 2, 8)>>) ]

SeriesSets ==
    { FullSeries,
      [FullSeries EXCEPT ![<<"BTCUSDT", "15m">>] = Absent],
      [FullSeries EXCEPT ![<<"ETHUSDT", "1m">>] = Given(<<>>)],
      [FullSeries EXCEPT ![<<"SOLUSDT", "1m">>] = Given(<<Candle(9, 2, 0)>>)] }

\* d.get(key, default) on a dict given by its items
GetOr(items, key, default) == IF Has(items, key) THEN Get(items, key) ELSE default

\* pairs.setdefault(sym, {})[tf] = arr
PutPair(items, sym, tf, arr) ==
    IF Has(items, sym)
    THEN [ i \in 1..Len(items) |->
             IF items[i][1] = sym THEN <<sym, Append(items[i][2], <<tf, arr>>)>> ELSE items[i] ]
    ELSE Append(items, <<sym, << <<tf, arr>> >> >>)

\* fmt_price: the number and the decimals it is printed with
fmt_price(x) ==
    IF x >= 1000 THEN <<x, 0>>
    ELSE IF x >= 10 THEN <<x, 2>>
    ELSE <<x, 4>>

\* series[-1] if series else None, and series[-2]["close"] when there is one
last_candle(arr) == IF arr = <<>> THEN <<>> ELSE <<arr[Len(arr)]>>
prev_close(arr)  == IF Len(arr) >= 2 THEN <<arr[Len(arr) - 1].close>> ELSE <<>>

\* one table line of build_md
EmptyLine(sym, tf) ==
    [sym |-> sym, tf |-> tf, empty |-> TRUE, price |-> <<>>, delta |-> <<>>, time |-> <<>>, vol |-> <<>>]

MdLine(sym, tf, arr) ==
    LET lc == last_candle(arr)
        pc0 == prev_close(arr)
    IN  IF lc = <<>> THEN EmptyLine(sym, tf)
        ELSE [ sym |-> sym, tf |-> tf, empty |-> FALSE,
               price |-> fmt_price(lc[1].close),
               delta |-> IF pc0 = <<>> THEN <<>> ELSE <<lc[1].close - pc0[1]>>,
               time  |-> <<lc[1].time>>,
               vol   |-> <<lc[1].volume>> ]

\* the table lines for the (sym, tf) loop positions listed in ks
LinesFor(ps, ks) ==
    [ n \in 1..Len(ks) |->
        MdLine(ks[n][1], ks[n][2], GetOr(GetOr(ps, ks[n][1], <<>>), ks[n][2], <<>>)) ]

\* for sym in order: for tf in ["1m","15m"]
FixedOrder ==
    [ n \in 1..(Len(order) * Len(TIMEFRAMES)) |->
        <<order[((n - 1) \div Len(TIMEFRAMES)) + 1], TIMEFRAMES[((n - 1) % Len(TIMEFRAMES)) + 1]>> ]

\* the loop positions had the loops run over the dict's own keys
RECURSIVE Flatten(_)
Flatten(ps) ==
    IF ps = <<>> THEN <<>>
    ELSE [ n \in 1..Len(ps[1][2]) |-> <<ps[1][1], ps[1][2][n][1]>> ] \o Flatten(Tail(ps))

build_md_in_dict_order(ps) == LinesFor(ps, Flatten(ps))

build_md(ps) == LinesFor(ps, FixedOrder)

MdInit ==
    /\ series \in SeriesSets
    /\ run = 1
    /\ pairs = << <<>>, <<>> >>
    /\ mds = <<>>

MdIdle ==
    /\ series = FullSeries
    /\ run = 0
    /\ pairs = << <<>>, <<>> >>
    /\ mds = <<>>

Inserted(ps, p) == Has(ps, p[1]) /\ Has(Get(ps, p[1]), p[2])

\* the series of one pair arrives and is put into d["pairs"] of this run
InsertPair(p) ==
    /\ run \in {1, 2}
    /\ series[p].given
    /\ ~Inserted(pairs[run], p)
    /\ pairs' = [pairs EXCEPT ![run] = PutPair(pairs[run], p[1], p[2], series[p].arr)]
    /\ UNCHANGED <<series, run, mds>>

\* main of generate_snapshot.py, once every series given is in the file
BuildMd ==
    /\ run \in {1, 2}
    /\ \A p \in PairIds : series[p].given => Inserted(pairs[run], p)
    /\ mds' = Append(mds, build_md(pairs[run]))
    /\ run' = run + 1
    /\ UNCHANGED <<series, pairs>>

-----------------------------------------------------------------------------
(* One candle in both row shapes.                                           *)

\* the logical candles, as the values of t, o, h, l, c, v
LogicalCandles ==
    { <<t, VFloat(101, 0), VFloat(110, 0), VFloat(99, 0), c, v>> :
        t \in {VInt(170), VInt(170000)},
        c \in {VFloat(105, 5), VStr(105, 5)},
        v \in {VInt(0), VInt(7), VFloat(0, 0)} }

\* the key of each field of the named row, and the volume-like item it may carry besides
NamedKeys ==
    [ t : {"t", "time", "ts", "timestamp", "T", "Time"},
      o : {"o", "open", "OPEN"},
      h : {"h", "high"},
      l : {"l", "Low"},
      c : {"c", "close"},
      v : {"v", "volume", "amount", "Volume"},
      x : {"", "amount", "turnover", "turnover24h"} ]

NamedOf(cd, ks) ==
    DictRow(<< <<ks.t, cd[1]>>, <<ks.o, cd[2]>>, <<ks.h, cd[3]>>, <<ks.l, cd[4]>>,
               <<ks.c, cd[5]>>, <<ks.v, cd[6]>> >>
            \o (IF ks.x = "" THEN <<>> ELSE << <<ks.x, VInt(9)>> >>))

EqInit ==
    /\ \E cd \in LogicalCandles, ks \in NamedKeys :
          /\ ks.x # ks.v
          /\ posRow = ListRow(cd)
          /\ namedRow = NamedOf(cd, ks)
    /\ posOut = Pending
    /\ namedOut = Pending

EqIdle ==
    /\ posRow = OtherRow
    /\ namedRow = OtherRow
    /\ posOut = Pending
    /\ namedOut = Pending

ParsePositional ==
    /\ posRow # OtherRow
    /\ posOut.st = "pending"
    /\ posOut' = parse_kline_row(posRow)
    /\ UNCHANGED <<posRow, namedRow, namedOut>>

ParseNamed ==
    /\ namedRow # OtherRow
    /\ namedOut.st = "pending"
    /\ namedOut' = parse_kline_row(namedRow)
    /\ UNCHANGED <<posRow, namedRow, posOut>>

-----------------------------------------------------------------------------
(* The HTTP retry loops: fetch_klines of fetch_and_publish.py and _get of   *)
(* scripts/snapshot.py.  One turn of a loop issues one request; what comes  *)
(* back is a transport error, a status (451, another error status), a body  *)
(* that cannot be decoded or converted, or a good body.                     *)

Outcome(kind, body) == [kind |-> kind, body |-> body]

FailureKinds == {"transport", "status451", "status5xx", "badBody"}

Outcomes == { Outcome(kd, 0) : kd \in FailureKinds } \cup { Outcome("ok", b) : b \in {1, 2} }

\* the exception the try block of fetch_klines raises on an outcome
ExceptionOf(o) ==
    CASE o.kind = "transport" -> "RequestException"
      [] o.kind = "status451" -> "RuntimeError"
      [] o.kind = "status5xx" -> "HTTPError"
      [] OTHER                -> "ValueError"

\* the exception the try block of _get raises on an outcome: it has no test
\* of its own for 451, which raise_for_status turns into an HTTPError
GetExceptionOf(o) ==
    IF o.kind = "status451" THEN "HTTPError" ELSE ExceptionOf(o)

NoResult        == [st |-> "none", body |-> 0, exc |-> ""]
Returned(b)     == [st |-> "return", body |-> b, exc |-> ""]
Raised(e)       == [st |-> "raise", body |-> 0, exc |-> e]
\* the trailing `return []` of fetch_klines
ReturnedEmpty   == [st |-> "return_empty", body |-> 0, exc |-> ""]

\* range(5) of fetch_klines
FK_ATTEMPTS == 5

\* `if attempt == 5`, one past the last value of attempt
IsLastAttemptOffByOne(a) == a = FK_ATTEMPTS

\* if attempt == 4
IsLastAttempt(a) == a = 4

\* backoff *= 1.8
NextBackoff(b) == <<b[1] * 18, b[2] * 10>>

RETRIES == 3

RetryInit ==
    /\ fk_pc = "loop"
    /\ attempt = 0
    /\ backoff = <<2, 1>>
    /\ fk_outcomes = <<>>
    /\ fk_result = NoResult
    /\ get_pc = "loop"
    /\ get_tries = 0
    /\ last_exc = ""
    /\ get_outcomes = <<>>
    /\ get_result = NoResult

RetryIdle ==
    /\ fk_pc = "idle"
    /\ attempt = 0
    /\ backoff = <<2, 1>>
    /\ fk_outcomes = <<>>
    /\ fk_result = NoResult
    /\ get_pc = "idle"
    /\ get_tries = 0
    /\ last_exc = ""
    /\ get_outcomes = <<>>
    /\ get_result = NoResult

\* fetch_klines: one turn of `for attempt in range(5)`.  A good body is
\* converted and returned; any exception is re-raised on the last attempt and
\* otherwise slept on; a loop that ran out would reach `return []`.
FetchKlinesAttempt(o) ==
    /\ fk_pc = "loop"
    /\ attempt < FK_ATTEMPTS
    /\ fk_outcomes' = Append(fk_outcomes, o)
    /\ IF o.kind = "ok"
       THEN /\ fk_pc' = "returned"
            /\ fk_result' = Returned(o.body)
            /\ UNCHANGED <<attempt, backoff>>
       ELSE IF IsLastAttempt(attempt)
       THEN /\ fk_pc' = "raised"
            /\ fk_result' = Raised(ExceptionOf(o))
            /\ UNCHANGED <<attempt, backoff>>
       ELSE /\ backoff' = NextBackoff(backoff)
            /\ attempt' = attempt + 1
            /\ IF attempt + 1 < FK_ATTEMPTS
               THEN UNCHANGED <<fk_pc, fk_result>>
               ELSE fk_pc' = "returned" /\ fk_result' = ReturnedEmpty
    /\ UNCHANGED <<get_pc, get_tries, last_exc, get_outcomes, get_result>>

\* _get: one turn of `for _ in range(RETRIES)`.  A good body is returned; any
\* exception is kept in last_exc and slept on, and after the last turn the
\* loop ends and RuntimeError is raised.
GetAttempt(o) ==
    /\ get_pc = "loop"
    /\ get_tries < RETRIES
    /\ get_outcomes' = Append(get_outcomes, o)
    /\ get_tries' = get_tries + 1
    /\ IF o.kind = "ok"
       THEN /\ get_pc' = "returned"
            /\ get_result' = Returned(o.body)
            /\ UNCHANGED last_exc
       ELSE /\ last_exc' = GetExceptionOf(o)
            /\ IF get_tries + 1 < RETRIES
               THEN UNCHANGED <<get_pc, get_result>>
               ELSE get_pc' = "raised" /\ get_result' = Raised("RuntimeError")
    /\ UNCHANGED <<fk_pc, attempt, backoff, fk_outcomes, fk_result>>

-----------------------------------------------------------------------------
(* The bias classifier.  Its code is not among the source files; it is      *)
(* written from the description of the classifier: inputs last close,       *)
(* EMA20, EMA50, EMA200 and RSI14, an EMA or RSI being undefined when the   *)
(* series is shorter than its window.                                       *)

\* an undefined indicator, a value no price or RSI level takes
Undefined == -1

IsDefined(x) == x # Undefined

\* closes and EMA values, around the scenario 105 / 103 / 100 / 95
PriceLevels == {95, 100, 103, 105}

\* RSI values on both sides of, and at, the thresholds 45 and 55
RsiLevels == {40, 45, 50, 55, 60}

IndicatorInputs ==
    [ close  : PriceLevels,
      ema20  : PriceLevels \cup {Undefined},
      ema50  : PriceLevels \cup {Undefined},
      ema200 : PriceLevels \cup {Undefined},
      rsi14  : RsiLevels \cup {Undefined} ]

BiasResult(st, cf, sc) == [state |-> st, confidence |-> cf, score |-> sc]

NoBias == BiasResult("pending", "pending", 0)

\* one bonus point
Point(cond) == IF cond THEN 1 ELSE 0

\* "strong" from a score of 2, the base score, on
ConfidenceFromBase(st, sc) ==
    IF st = "neutral" THEN "weak" ELSE IF sc >= 2 THEN "strong" ELSE "moderate"

\* neutral -> "weak"; else "strong" when score >= 3, otherwise "moderate"
Confidence(st, sc) ==
    IF st = "neutral" THEN "weak" ELSE IF sc >= 3 THEN "strong" ELSE "moderate"

\* start score = 0; bullish or bearish scores 2 plus the two bonus points
Classified(st, sc) == BiasResult(st, Confidence(st, sc), sc)

BiasClassifier(in) ==
    IF ~(IsDefined(in.ema20) /\ IsDefined(in.ema50)
         /\ IsDefined(in.ema200) /\ IsDefined(in.rsi14))
    THEN BiasResult("neutral", "weak", 0)
    ELSE IF in.close > in.ema50 /\ in.ema20 > in.ema50
    THEN Classified("bullish",
                    2 + Point(in.ema50 > in.ema200) + Point(in.rsi14 > 55))
    ELSE IF in.close < in.ema50 /\ in.ema20 < in.ema50
    THEN Classified("bearish",
                    2 + Point(in.ema50 < in.ema200) + Point(in.rsi14 < 45))
    ELSE Classified("neutral", 0)

BiasInit ==
    /\ indicators \in IndicatorInputs
    /\ bias = NoBias

BiasIdle ==
    /\ indicators = [close |-> 95, ema20 |-> Undefined, ema50 |-> Undefined,
                     ema200 |-> Undefined, rsi14 |-> Undefined]
    /\ bias = NoBias

Classify ==
    /\ bias = NoBias
    /\ bias' = BiasClassifier(indicators)
    /\ UNCHANGED indicators

-----------------------------------------------------------------------------
(* Specifications: one per part of the program, the other parts at rest.    *)

InitRow == RowInit /\ NormIdle /\ SnapIdle /\ MdIdle /\ EqIdle /\ RetryIdle /\ BiasIdle
NextRow == ParseRow /\ UNCHANGED <<normVars, snapVars, mdVars, eqVars, retryVars, biasVars>>
SpecRow == InitRow /\ [][NextRow]_vars

InitNorm == NormInit /\ RowIdle /\ SnapIdle /\ MdIdle /\ EqIdle /\ RetryIdle /\ BiasIdle
NextNorm == Normalize /\ UNCHANGED <<rowVars, snapVars, mdVars, eqVars, retryVars, biasVars>>
SpecNorm == InitNorm /\ [][NextNorm]_vars

InitSnap == SnapInit /\ RowIdle /\ NormIdle /\ MdIdle /\ EqIdle /\ RetryIdle /\ BiasIdle
NextSnap ==
    \/ \E resp \in Responses :
          TryEndpoint(resp) /\ UNCHANGED <<rowVars, normVars, mdVars, eqVars, retryVars, biasVars>>
    \/ BuildAssetBlock /\ UNCHANGED <<rowVars, normVars, mdVars, eqVars, retryVars, biasVars>>
    \/ FinishSnapshot /\ UNCHANGED <<rowVars, normVars, mdVars, eqVars, retryVars, biasVars>>
SpecSnap == InitSnap /\ [][NextSnap]_vars

InitMd == MdInit /\ RowIdle /\ NormIdle /\ SnapIdle /\ EqIdle /\ RetryIdle /\ BiasIdle
NextMd ==
    \/ \E p \in PairIds : InsertPair(p) /\ UNCHANGED <<rowVars, normVars, snapVars, eqVars, retryVars, biasVars>>
    \/ BuildMd /\ UNCHANGED <<rowVars, normVars, snapVars, eqVars, retryVars, biasVars>>
SpecMd == InitMd /\ [][NextMd]_vars

InitEq == EqInit /\ RowIdle /\ NormIdle /\ SnapIdle /\ MdIdle /\ RetryIdle /\ BiasIdle
NextEq ==
    \/ ParsePositional /\ UNCHANGED <<rowVars, normVars, snapVars, mdVars, retryVars, biasVars>>
    \/ ParseNamed /\ UNCHANGED <<rowVars, normVars, snapVars, mdVars, retryVars, biasVars>>
SpecEq == InitEq /\ [][NextEq]_vars

InitRetry == RetryInit /\ RowIdle /\ NormIdle /\ SnapIdle /\ MdIdle /\ EqIdle /\ BiasIdle
NextRetry ==
    \/ \E o \in Outcomes :
          FetchKlinesAttempt(o) /\ UNCHANGED <<rowVars, normVars, snapVars, mdVars, eqVars, biasVars>>
    \/ \E o \in Outcomes :
          GetAttempt(o) /\ UNCHANGED <<rowVars, normVars, snapVars, mdVars, eqVars, biasVars>>
SpecRetry == InitRetry /\ [][NextRetry]_vars

InitBias == BiasInit /\ RowIdle /\ NormIdle /\ SnapIdle /\ MdIdle /\ EqIdle /\ RetryIdle
NextBias == Classify /\ UNCHANGED <<rowVars, normVars, snapVars, mdVars, eqVars, retryVars>>
SpecBias == InitBias /\ [][NextBias]_vars

-----------------------------------------------------------------------------
(* Properties of normalize_klines, under SpecNorm.                          *)

\* C7: rows come from the `data` field of an envelope, a single object under
\* `data` comes back as a one-element list holding it, and whatever is
\* returned is a list.
C7_EnvelopeUnwrapped ==
    /\ normalized.st = "ok" => normalized.val.k = "list"
    /\ (normalized.st # "pending" /\ obj.k = "dict" /\ Has(obj.e, "data")) =>
          LET d == Get(obj.e, "data")
          IN  /\ d.k = "list" => normalized = NormReturn(d)
              /\ d.k = "dict" => normalized = NormReturn(JList(<<d>>))
              /\ d.k \notin {"list", "dict"} => normalized.st = "raise"

\* a single candle under `data` has come back wrapped
C7_Witness ==
    /\ obj.k = "dict"
    /\ Has(obj.e, "data")
    /\ Get(obj.e, "data") = RowB
    /\ normalized = NormReturn(JList(<<RowB>>))

-----------------------------------------------------------------------------
(* Properties of the snapshot builder, under SpecSnap.                      *)

\* the rows of a response, when normalize_klines accepts it
HasRows(resp) == resp.kind = "json" /\ normalize_klines(resp.val).st = "ok"
RowsOf(resp)  == normalize_klines(resp.val).val.e

Malformed(r) == parse_kline_row(r).st # "ok"

\* C2 (as claimed): a payload of n rows of which k < n are malformed
\* normalizes to n - k candles instead of failing as a whole.
C2_MalformedRowsSkipped ==
    HasRows(raw) =>
        LET rs == RowsOf(raw)
            k  == Cardinality({ i \in 1..Len(rs) : Malformed(rs[i]) })
        IN  (0 < k /\ k < Len(rs)) => (pc = "block" /\ Len(klines) = Len(rs) - k)

\* C3 (as claimed): the run fails only when every pair has failed: a failure
\* of one pair leaves no other pair unprocessed and discards no built pair.
C3_FailuresPairScoped ==
    pc = "failed" => (symIdx = Len(SYMBOLS) /\ snapshot_pairs = <<>>)

\* C4 (as claimed): the sorted candles of a symbol have strictly increasing
\* timestamps, and of the input rows of one timestamp the last one is kept.
C4_SortedDeduplicated ==
    pc = "block" =>
        LET rs == RowsOf(raw)
            ps == [i \in 1..Len(rs) |-> parse_kline_row(rs[i]).t]
            lastOfTs(i) == \A j \in (i + 1)..Len(ps) : ps[j][1] # ps[i][1]
        IN  /\ \A i, j \in 1..Len(klines) : i < j => klines[i][1] < klines[j][1]
            /\ \A i \in 1..Len(ps) : lastOfTs(i) => \E m \in 1..Len(klines) : klines[m] = ps[i]
            /\ \A m \in 1..Len(klines) :
                  \E i \in 1..Len(ps) : lastOfTs(i) /\ klines[m] = ps[i]

\* a well-shaped response none of whose rows parses (or that has no rows)
ZeroCandles(resp) ==
    HasRows(resp) /\ \A i \in 1..Len(RowsOf(resp)) : Malformed(RowsOf(resp)[i])

\* C8 (as claimed): a pair whose payload yields zero candles fails and gets
\* no entry, and that failure leaves the sibling pairs alone.
C8_ZeroCandlesPairScoped ==
    /\ \A i \in 1..Len(snapshot_pairs) : snapshot_pairs[i][2].klines_1m # <<>>
    /\ ZeroCandles(raw) => pc \notin {"finish", "done"}
    /\ (pc = "failed" /\ ZeroCandles(raw)) =>
          (symIdx = Len(SYMBOLS) /\ snapshot_pairs = <<>>)

-----------------------------------------------------------------------------
(* Properties of build_md, under SpecMd: two runs over the same series,     *)
(* each with its own arrival order.                                         *)

\* C9: the table lists the pairs in the fixed order BTCUSDT, ETHUSDT,
\* SOLUSDT, 1m before 15m, whatever the order of the dict it was given, so
\* two runs over the same series make the same table.
C9_FixedOutputOrder ==
    /\ \A r \in 1..Len(mds) :
          [n \in 1..Len(mds[r]) |-> <<mds[r][n].sym, mds[r][n].tf>>] = FixedOrder
    /\ Len(mds) = 2 => mds[1] = mds[2]

\* both runs are done and their dicts were filled in different orders
C9_Witness ==
    /\ Len(mds) = 2
    /\ Flatten(pairs[1]) # Flatten(pairs[2])
    /\ Flatten(pairs[1]) # FixedOrder
    /\ \E n \in 1..Len(mds[1]) : ~mds[1][n].empty

-----------------------------------------------------------------------------
(* Properties of the two row shapes, under SpecEq.                          *)

\* C10 (as claimed): the positional and the named row of one candle parse
\* to the same tuple.
C10_RowShapesAgree ==
    (posOut.st # "pending" /\ namedOut.st # "pending") => posOut = namedOut

-----------------------------------------------------------------------------
(* Properties of fetch_klines_for_symbol, under SpecSnap.                   *)

\* fetch, envelope normalization and the parsing of every row all succeed
Succeeds(resp) ==
    HasRows(resp) /\ \A i \in 1..Len(RowsOf(resp)) : ~Malformed(RowsOf(resp)[i])

\* ks holds the tuples of the rows of resp, each as often, by rising timestamp
SortedRowsOf(ks, resp) ==
    LET rs == RowsOf(resp)
        ps == [i \in 1..Len(rs) |-> parse_kline_row(rs[i]).t]
    IN  /\ Len(ks) = Len(ps)
        /\ \A i, j \in 1..Len(ks) : i < j => ks[i][1] <= ks[j][1]
        /\ \A x \in {ps[i] : i \in 1..Len(ps)} :
              Cardinality({i \in 1..Len(ks) : ks[i] = x})
                = Cardinality({i \in 1..Len(ps) : ps[i] = x})

EveryEndpointFailed ==
    /\ Len(contacted) = Len(KLINE_ENDPOINTS)
    /\ \A i \in 1..Len(contacted) : ~Succeeds(contacted[i])

\* C12: the endpoints are tried in list order; the call returns the sorted
\* rows and the URL of the first endpoint whose fetch, normalization and
\* parsing of every row succeed, and contacts no endpoint after it; a failed
\* endpoint leads to the next one; RuntimeError is raised exactly when every
\* endpoint has failed, and reports the last endpoint tried.
C12_FirstGoodEndpoint ==
    /\ pc = "fetch" =>
          /\ epIdx = Len(contacted) + 1
          /\ epIdx <= Len(KLINE_ENDPOINTS)
          /\ \A i \in 1..Len(contacted) : ~Succeeds(contacted[i])
          /\ contacted # <<>> => last_err[1] = Len(contacted)
    /\ pc = "block" =>
          /\ used_url = Len(contacted)
          /\ Succeeds(contacted[used_url])
          /\ \A i \in 1..(used_url - 1) : ~Succeeds(contacted[i])
          /\ SortedRowsOf(klines, contacted[used_url])
    /\ (pc = "failed" /\ error = "All MEXC kline endpoints failed") =>
          (EveryEndpointFailed /\ last_err[1] = Len(KLINE_ENDPOINTS))
    /\ EveryEndpointFailed =>
          (pc = "failed" /\ error = "All MEXC kline endpoints failed")

\* the second endpoint answered after the first had failed, and its rows,
\* which came latest first, are returned by rising timestamp
C12_Witness ==
    /\ pc = "block"
    /\ used_url = 2
    /\ RowsOf(raw) = <<RowT2, RowT1>>
    /\ Len(klines) = 2
    /\ klines[1][1] < klines[2][1]

-----------------------------------------------------------------------------
(* Properties of the retry loops, under SpecRetry.                          *)

AllFailed(os) == \A i \in 1..Len(os) : os[i].kind # "ok"

\* what a loop of at most n requests may have done: it is still running
\* after fewer than n failures, or it returned the body of its first good
\* request, which was its last request, or it raised after n failures
RetryLoopOk(st, os, res, n) ==
    /\ Len(os) <= n
    /\ st \in {"loop", "returned", "raised"}
    /\ st = "loop" => (Len(os) < n /\ AllFailed(os) /\ res = NoResult)
    /\ st = "returned" =>
          /\ os # <<>>
          /\ os[Len(os)].kind = "ok"
          /\ AllFailed(SubSeq(os, 1, Len(os) - 1))
          /\ res = Returned(os[Len(os)].body)
    /\ st = "raised" => (Len(os) = n /\ AllFailed(os) /\ res.st = "raise")
    /\ (Len(os) = n /\ AllFailed(os)) => st = "raised"

\* C13: fetch_klines issues at most 5 requests and _get at most 3; each
\* returns the result of its first successful request and issues none after
\* it; after the last failed attempt each raises (fetch_klines never reaches
\* its trailing `return []`), a 451 being a failure like any other; and a
\* loop that has not ended can always take its next turn.
C13_RetryLoopsBounded ==
    /\ RetryLoopOk(fk_pc, fk_outcomes, fk_result, 5)
    /\ RetryLoopOk(get_pc, get_outcomes, get_result, 3)
    /\ fk_result # ReturnedEmpty
    /\ fk_pc = "loop" => \A o \in Outcomes : ENABLED FetchKlinesAttempt(o)
    /\ get_pc = "loop" => \A o \in Outcomes : ENABLED GetAttempt(o)

\* fetch_klines has raised after five failures, the first of them a 451, and
\* _get has returned the body of its second request
C13_Witness ==
    /\ fk_pc = "raised"
    /\ Len(fk_outcomes) = 5
    /\ fk_outcomes[1].kind = "status451"
    /\ get_pc = "returned"
    /\ Len(get_outcomes) = 2
    /\ get_result = Returned(get_outcomes[2].body)

-----------------------------------------------------------------------------
(* Properties of the bias classifier, under SpecBias.                       *)

AnyUndefined ==
    \E f \in {"ema20", "ema50", "ema200", "rsi14"} : indicators[f] = Undefined

\* the bonus points the inputs earn in a direction, counted apart from the
\* classifier: EMA50 against EMA200, and RSI14 beyond 55 or 45
BonusPoints(st) ==
    IF st = "bullish"
    THEN Cardinality({ k \in {"ema", "rsi"} :
             \/ k = "ema" /\ indicators.ema50 > indicators.ema200
             \/ k = "rsi" /\ indicators.rsi14 > 55 })
    ELSE Cardinality({ k \in {"ema", "rsi"} :
             \/ k = "ema" /\ indicators.ema50 < indicators.ema200
             \/ k = "rsi" /\ indicators.rsi14 < 45 })

Scenario ==
    indicators = [close |-> 105, ema20 |-> 103, ema50 |-> 100,
                  ema200 |-> 95, rsi14 |-> 60]

\* C11: once classified, confidence is "weak" exactly when the state is
\* neutral, and the state is neutral whenever an EMA or the RSI is undefined;
\* a bullish or bearish state has score 2 plus its bonus points and is
\* "strong" when at least one bonus point was earned (score >= 3) and
\* "moderate" otherwise; close 105, EMA20 103, EMA50 100, EMA200 95, RSI 60
\* gives bullish/strong with score 4.
C11_BiasConfidence ==
    bias # NoBias =>
        /\ bias.state \in {"bullish", "bearish", "neutral"}
        /\ bias.confidence = "weak" <=> bias.state = "neutral"
        /\ AnyUndefined => bias.state = "neutral"
        /\ bias.state # "neutral" =>
              /\ bias.score = 2 + BonusPoints(bias.state)
              /\ bias.confidence = IF BonusPoints(bias.state) >= 1
                                   THEN "strong" ELSE "moderate"
              /\ bias.confidence = "strong" <=> bias.score >= 3
        /\ Scenario => bias = BiasResult("bullish", "strong", 4)

\* the scenario has been classified
C11_Witness == Scenario /\ bias.state = "bullish" /\ bias.confidence = "strong"

=============================================================================
